---- MODULE Spec2Model ----
(***************************************************************************)
(* Peer session engine of the BitTorrent leech client                      *)
(* (bittorrent_client/src/bt_client/peer_connection.rs).                   *)
(*                                                                         *)
(* Every PeerConnection runs start_download on a thread of its own.  The   *)
(* sessions share the piece queue, the completion flag, the completed      *)
(* piece bitfield and the event channel to the client.  A session's steps  *)
(* are cut at the points where it touches one of these or its socket.      *)
(***************************************************************************)
EXTENDS Integers, Sequences, FiniteSets, TLC

\* ------------------------------------------------------------------ bounds
NSessions == 2
NPieces == 2
PieceLength == 20000
LastPieceLength == 1000
MaxReads == 4
MaxSharedReads == 3
MaxPstrLen == 256

\* ------------------------------------------------------- program constants
BLOCK_SIZE == 16384
U8 == 256

Sessions == 1..NSessions
PieceIdx == 0..(NPieces - 1)

InfoHash == "info_hash"
OtherHash == "other_hash"
PSTR == "BitTorrent protocol"

VARIABLES
  pc,            \* position of each session in start_download
  am_choked,     \* PeerConnection.am_choked
  am_interested, \* PeerConnection.am_interested
  pieces,        \* PeerConnection.pieces (what the remote advertises)
  peer_id,       \* Peer id learned at handshake (0: not learned)
  held,          \* the `piece` local of start_download, as an Option
  remote,        \* the handshake read from the remote, until announced
  fetched,       \* per session, the pieces it fetched and how each ended
  evts,          \* per session, the tx_client.send calls it made, in order
  piece_queue,   \* Arc<RwLock<PieceQueue>>
  sink_open,     \* the receiver of tx_client is alive
  dl_finished,   \* Arc<RwLock<bool>>
  dl_poisoned,   \* dl_finished.read() fails
  bf_pieces,     \* Arc<RwLock<PieceBitfield>>, the completed pieces
  bf_poisoned,   \* bf_pieces.read() fails
  reads,         \* frames the remote peers delivered so far
  msg,           \* the `msg` local of receive_message, until dispatched
  requests,      \* per session, the Request frames sent for the held piece
  retry,         \* request_a_piece: parity of the loop turns that sent nothing
  stored,        \* the pieces whose file store_piece_in_file has written
  locks,         \* per session, the guards of the shared locks it holds
  c_msg,         \* codec: the message built
  c_wire,        \* codec: the bytes send_msg wrote to the stream
  c_read         \* codec: what read_msg made of those bytes

sessVars == <<am_choked, am_interested, pieces, peer_id>>
envVars == <<sink_open, dl_finished, dl_poisoned, bf_pieces, bf_poisoned>>
ioVars == <<msg, requests, retry>>
codecVars == <<c_msg, c_wire, c_read>>

vars == <<pc, am_choked, am_interested, pieces, peer_id, held, remote,
          fetched, evts, piece_queue, sink_open, dl_finished, dl_poisoned, bf_pieces,
          bf_poisoned, reads, msg, requests, retry, stored, locks,
          c_msg, c_wire, c_read>>

\* ------------------------------------------------------------------ Piece
TotalLength(i) == IF i = NPieces - 1 THEN LastPieceLength ELSE PieceLength

NoBlocks == [len |-> 0, good |-> TRUE]

\* A piece descriptor.  blocks abstracts the byte buffer: how many bytes it
\* holds and whether they all equal the torrent's content at their offsets.
NewPiece(i) ==
  [idx |-> i, tl |-> TotalLength(i), rq |-> 0, dl |-> 0, blocks |-> NoBlocks]

Min(a, b) == IF a < b THEN a ELSE b

next_block_length(p) == Min(BLOCK_SIZE, p.tl - p.rq)

add_to_rq(p, n) == [p EXCEPT !.rq = p.rq + n]

add_to_dl(p, n) == [p EXCEPT !.dl = p.dl + n]

add_block(p, len, good) ==
  [p EXCEPT !.blocks = [len |-> p.blocks.len + len,
                        good |-> p.blocks.good /\ good]]

reset_info(p) == [p EXCEPT !.rq = 0, !.dl = 0, !.blocks = NoBlocks]

\* SHA-1 of the buffer equals the expected digest: with a collision-free
\* hash, the buffer is exactly the piece's content.
piece_is_valid(p) == p.blocks.len = p.tl /\ p.blocks.good

\* ------------------------------------------------------------- PieceQueue
get_next_piece(q) ==
  IF q = <<>> THEN [some |-> FALSE, piece |-> <<>>, queue |-> q]
  ELSE [some |-> TRUE, piece |-> <<Head(q)>>, queue |-> Tail(q)]

push_back(q, p) == Append(q, p)

\* ---------------------------------------------------------- PieceBitfield
get_complement(bf) == PieceIdx \ bf

there_is_match(a, b) == a \cap b # {}

add_multiple_pieces(bf, bits) == bits

add_a_piece(bf, i) == bf \cup {i}

\* -------------------------------------------------------------- Handshake
RemoteHandshakes ==
  [pstr : {PSTR, "other protocol"}, reserved : {0, 1},
   info_hash : {InfoHash, OtherHash}, peer_id : {7}]

NoHandshake == [pstr |-> "", reserved |-> 0, info_hash |-> "", peer_id |-> 0]

\* is_valid, were it to accept any handshake.
is_valid_any(h, info_hash) == TRUE

is_valid(h, info_hash) == h.info_hash = info_hash

\* ------------------------------------------------------------ wire codec
\* u32::to_be_bytes and u32::from_be_bytes, on the values below 2^31.
to_be_bytes(n) ==
  <<(n \div (U8 * U8 * U8)) % U8, (n \div (U8 * U8)) % U8, (n \div U8) % U8, n % U8>>

from_be_bytes(b) == ((b[1] * U8 + b[2]) * U8 + b[3]) * U8 + b[4]

\* read_exact of n bytes at position at of a stream: they are all there or
\* the read fails.
CanRead(stream, at, n) == at + n - 1 <= Len(stream)

Take(stream, at, n) == SubSeq(stream, at, at + n - 1)

\* PieceMsg::new.  9 + block.len() stays far below 2^32 for the blocks
\* tried here, so the cast to u32 keeps it.
PieceMsg_new(piece_index, begin, block) ==
  IF block = <<>>
  THEN [ok |-> FALSE, kind |-> "Piece", m |-> <<>>]
  ELSE [ok |-> TRUE, kind |-> "Piece",
        m |-> [length |-> 9 + Len(block), id |-> 7,
               piece_index |-> piece_index, begin |-> begin, block |-> block]]

\* PieceMsg::send_msg on a stream that takes every write.
PieceMsg_send_msg(m) ==
  to_be_bytes(m.length) \o <<m.id>> \o to_be_bytes(m.piece_index)
    \o to_be_bytes(m.begin) \o m.block

\* PieceMsg::read_msg(length, stream): the stream stands after the id byte.
PieceMsg_read_msg(length, stream) ==
  LET n == length - 9 IN
  IF length >= 9 /\ CanRead(stream, 1, 8 + n)
  THEN PieceMsg_new(from_be_bytes(Take(stream, 1, 4)),
                    from_be_bytes(Take(stream, 5, 4)),
                    Take(stream, 9, n))
  ELSE [ok |-> FALSE, kind |-> "Piece", m |-> <<>>]

\* MessageBuilder::build: the length prefix and the id byte, then the
\* variant's read_msg.  Only the Piece branch is followed.
MaxU31 == 2147483647

MessageBuilder_build(stream) ==
  IF CanRead(stream, 1, 5) /\ from_be_bytes(Take(stream, 1, 4)) > 0 /\ stream[5] = 7
  THEN PieceMsg_read_msg(from_be_bytes(Take(stream, 1, 4)),
                         SubSeq(stream, 6, Len(stream)))
  ELSE [ok |-> FALSE, kind |-> "Piece", m |-> <<>>]

\* Handshake::new / new_from_param: pstrlen is pstr.len() as u8.
Handshake_new(pstr, info_hash, peerid) ==
  [ok |-> TRUE, kind |-> "Handshake",
   m |-> [pstrlen |-> Len(pstr) % U8, pstr |-> pstr,
          reserved |-> [i \in 1..8 |-> 0],
          info_hash |-> info_hash, peer_id |-> peerid]]

\* Handshake::send_msg on a stream that takes every write.
Handshake_send_msg(m) ==
  <<m.pstrlen>> \o m.pstr \o m.reserved \o m.info_hash \o m.peer_id

\* Handshake::read_msg.
Handshake_read_msg(stream) ==
  IF CanRead(stream, 1, 1) /\ CanRead(stream, 2, stream[1] + 48)
  THEN LET n == stream[1] IN
       [ok |-> TRUE, kind |-> "Handshake",
        m |-> [pstrlen |-> n, pstr |-> Take(stream, 2, n),
               reserved |-> Take(stream, 2 + n, 8),
               info_hash |-> Take(stream, 10 + n, 20),
               peer_id |-> Take(stream, 30 + n, 20)]]
  ELSE [ok |-> FALSE, kind |-> "Handshake", m |-> <<>>]

\* The messages the codec is tried on.
Bytes(n, b) == [i \in 1..n |-> b]

PstrLens == {0, 1, 19, MaxPstrLen - 1, MaxPstrLen}

CodecHandshakes ==
  {Handshake_new(Bytes(n, 66), Bytes(20, h), Bytes(20, q)) :
     n \in PstrLens, h \in {1, 2}, q \in {0, 255}}

CodecBlocks == {<<>>, <<7>>, <<1, 2, 3>>, Bytes(300, 9)}

CodecPieces ==
  {PieceMsg_new(i, b, blk) :
     i \in {0, 1, MaxU31}, b \in {0, BLOCK_SIZE, MaxU31}, blk \in CodecBlocks}

send_msg(c) ==
  IF c.kind = "Piece" THEN PieceMsg_send_msg(c.m) ELSE Handshake_send_msg(c.m)

read_msg(kind, stream) ==
  IF kind = "Piece" THEN MessageBuilder_build(stream) ELSE Handshake_read_msg(stream)

\* ------------------------------------------------------------ P2PMessage
Frame(t, i, b, l, g, bits) ==
  [type |-> t, idx |-> i, begin |-> b, len |-> l, good |-> g, bits |-> bits]

IgnoredTypes == {"KeepAlive", "Interested", "NotInterested", "Request", "Cancel"}

BlockLens == {LastPieceLength, BLOCK_SIZE, PieceLength - BLOCK_SIZE}
Begins == {0, BLOCK_SIZE}

PieceFrames ==
  {Frame("Piece", i, b, l, g, {}) :
     i \in PieceIdx, b \in Begins, l \in BlockLens, g \in BOOLEAN}

\* A block can only equal the torrent's content where the piece has content.
AdmissiblePieceFrames ==
  {f \in PieceFrames : f.good => f.begin + f.len <= TotalLength(f.idx)}

Frames ==
  {Frame(t, 0, 0, 0, FALSE, {}) : t \in IgnoredTypes \cup {"Choke", "Unchoke"}}
  \cup {Frame("Have", i, 0, 0, FALSE, {}) : i \in PieceIdx}
  \cup {Frame("Bitfield", 0, 0, 0, FALSE, bits) : bits \in SUBSET PieceIdx}
  \cup AdmissiblePieceFrames

\* The frames of a peer that answers the requests it gets: for each piece the
\* blocks of BLOCK_SIZE bytes that tile it, right or corrupted.
AnsweringFrames ==
  {Frame(t, 0, 0, 0, FALSE, {}) : t \in {"Choke", "Unchoke"}}
  \cup {Frame("Bitfield", 0, 0, 0, FALSE, PieceIdx)}
  \cup {f \in AdmissiblePieceFrames :
          f.len = Min(BLOCK_SIZE, TotalLength(f.idx) - f.begin)}

\* No frame is waiting to be dispatched.
NoMsg == Frame("None", 0, 0, 0, FALSE, {})

\* ------------------------------------------------------------------ events
Event(k, p, text, ok) == [kind |-> k, piece |-> p, text |-> text, delivered |-> ok]

\* tx_client.send(e) by session s: the event reaches the client iff the
\* receiver is alive.
Send(s, k, p, text) == Append(evts[s], Event(k, p, text, sink_open))

Kinds(s) == {evts[s][i].kind : i \in 1..Len(evts[s])}

EmittedBy(s) ==
  {evts[s][i].piece : i \in {j \in 1..Len(evts[s]) : evts[s][j].kind = "NewDownloadedPiece"}}

Emitted == UNION {EmittedBy(s) : s \in Sessions}

\* -------------------------------------------------------------------- Init
Init ==
  /\ pc = [s \in Sessions |-> "start"]
  /\ am_choked = [s \in Sessions |-> TRUE]
  /\ am_interested = [s \in Sessions |-> FALSE]
  /\ pieces = [s \in Sessions |-> {}]
  /\ peer_id = [s \in Sessions |-> 0]
  /\ held = [s \in Sessions |-> <<>>]
  /\ remote = [s \in Sessions |-> NoHandshake]
  /\ fetched = [s \in Sessions |-> <<>>]
  /\ evts = [s \in Sessions |-> <<>>]
  /\ piece_queue = [i \in 1..NPieces |-> NewPiece(i - 1)]
  /\ sink_open = TRUE
  /\ dl_finished = FALSE
  /\ dl_poisoned = FALSE
  /\ bf_pieces = {}
  /\ bf_poisoned = FALSE
  /\ reads = 0
  /\ msg = [s \in Sessions |-> NoMsg]
  /\ requests = [s \in Sessions |-> <<>>]
  /\ retry = [s \in Sessions |-> FALSE]
  /\ stored = {}
  /\ locks = [s \in Sessions |-> {}]
  /\ c_msg = <<>>
  /\ c_wire = <<>>
  /\ c_read = <<>>

\* ------------------------------------------------------- PeerConnection
\* fetch_piece, were it to leave the piece it hands out in the queue.
fetch_piece_peek(q) ==
  IF q = <<>> THEN [ok |-> FALSE, piece |-> <<>>, queue |-> q]
  ELSE [ok |-> TRUE, piece |-> <<Head(q)>>, queue |-> q]

fetch_piece(q) ==
  LET r == get_next_piece(q) IN
  IF r.some THEN [ok |-> TRUE, piece |-> r.piece, queue |-> r.queue]
  ELSE [ok |-> FALSE, piece |-> <<>>, queue |-> q]

\* return_piece, were it to drop the piece instead of pushing it.
return_piece_dropped(q, p) == q

\* return_piece, were it to push the piece back as it is.
return_piece_unreset(q, p) == push_back(q, p)

return_piece(q, p) == push_back(q, reset_info(p))

\* drop_connection, were it to forget the piece in progress.
drop_connection_forget(q, curr_piece) == q

\* drop_connection, lines 180-182: what becomes of the queue.
drop_connection(q, curr_piece) ==
  IF curr_piece # <<>> THEN return_piece(q, curr_piece[1]) ELSE q

\* download_finished, were it never to report completion.
download_finished_never(flag, poisoned) == FALSE

download_finished(flag, poisoned) == IF ~poisoned THEN flag ELSE FALSE

\* has_any_wanted_piece, were it to answer yes always.
has_any_wanted_always(mine, completed, poisoned) == TRUE

has_any_wanted_piece(mine, completed, poisoned) ==
  IF ~poisoned THEN there_is_match(mine, get_complement(completed)) ELSE FALSE

\* download_piece, were it to skip the hash check.
download_result_unchecked(p) == "Ok"

\* The value download_piece returns once its loop is over.
download_result(p) == IF piece_is_valid(p) THEN "Ok" ELSE "InvalidPiece"

\* The match of start_download, were InvalidPiece to end the session too.
match_result_fatal(res) ==
  CASE res = "Ok" -> "handle_new_piece"
    [] OTHER -> "drop_connection"

\* The match of start_download, were a choke to return at once.
match_result_silent(res) ==
  CASE res = "Ok" -> "handle_new_piece"
    [] res = "InvalidPiece" -> "return_piece"
    [] res = "CannotReadPeerMessage" -> "drop_connection"
    [] res = "PeerChokedUs" -> "done"
    [] OTHER -> "fetch"

\* The match of start_download on download_piece's result: where the
\* session goes next.
match_result(res) ==
  CASE res = "Ok" -> "handle_new_piece"
    [] res = "InvalidPiece" -> "return_piece"
    [] res = "CannotReadPeerMessage" -> "drop_connection"
    [] res = "PeerChokedUs" -> "drop_connection"
    [] OTHER -> "fetch"

\* handle_piece_msg, were it to take a block wherever it begins.
handle_piece_msg_any_begin(f, p) ==
  IF f.idx = p.idx
  THEN add_block(add_to_dl(p, f.len), f.len, f.good)
  ELSE p

handle_piece_msg(f, p) ==
  IF f.begin = p.dl /\ f.idx = p.idx
  THEN add_block(add_to_dl(p, f.len), f.len, f.good)
  ELSE p

\* handle_msg, were a Have frame to replace what the remote advertised.
handle_msg_have_replaces(f, choked, mine, p) ==
  CASE f.type = "Bitfield" ->
         [am_choked |-> choked, pieces |-> add_multiple_pieces(mine, f.bits),
          piece |-> p, status |-> FALSE]
    [] f.type = "Have" ->
         [am_choked |-> choked, pieces |-> {f.idx}, piece |-> p, status |-> FALSE]
    [] f.type = "Unchoke" ->
         [am_choked |-> FALSE, pieces |-> mine, piece |-> p, status |-> TRUE]
    [] f.type = "Piece" ->
         [am_choked |-> choked, pieces |-> mine,
          piece |-> handle_piece_msg(f, p), status |-> FALSE]
    [] OTHER ->
         [am_choked |-> choked, pieces |-> mine, piece |-> p, status |-> FALSE]

\* handle_msg, as the new <<am_choked, pieces, piece, status event sent>>.
handle_msg(f, choked, mine, p) ==
  CASE f.type = "Bitfield" ->
         [am_choked |-> choked, pieces |-> add_multiple_pieces(mine, f.bits),
          piece |-> p, status |-> FALSE]
    [] f.type = "Have" ->
         [am_choked |-> choked, pieces |-> add_a_piece(mine, f.idx),
          piece |-> p, status |-> FALSE]
    [] f.type = "Unchoke" ->
         [am_choked |-> FALSE, pieces |-> mine, piece |-> p, status |-> TRUE]
    [] f.type = "Piece" ->
         [am_choked |-> choked, pieces |-> mine,
          piece |-> handle_piece_msg(f, p), status |-> FALSE]
    [] OTHER ->
         [am_choked |-> choked, pieces |-> mine, piece |-> p, status |-> FALSE]

\* The last piece session s fetched ended with res.
Ended(s, res) ==
  [fetched EXCEPT ![s] = [fetched[s] EXCEPT ![Len(fetched[s])].res = res]]

\* download_piece, line 205, were it to look at am_interested only.
may_request_unchoked_or_not(choked, interested) == interested

\* download_piece, line 205: whether request_a_piece is called.
may_request(choked, interested) == ~choked /\ interested

\* request_a_piece, were it to advance the offset whether or not the frame
\* was sent.
request_a_piece_blind(p, sendOk) ==
  [piece |-> add_to_rq(p, next_block_length(p)),
   sent |-> IF sendOk
            THEN <<[idx |-> p.idx, begin |-> p.rq, len |-> next_block_length(p)]>>
            ELSE <<>>]

\* request_a_piece, lines 315-321: one turn of its loop, as the piece it
\* leaves and the Request frame it sent, if any.
request_a_piece(p, sendOk) ==
  IF sendOk
  THEN [piece |-> add_to_rq(p, next_block_length(p)),
        sent |-> <<[idx |-> p.idx, begin |-> p.rq, len |-> next_block_length(p)]>>]
  ELSE [piece |-> p, sent |-> <<>>]

\* handle_new_piece, were it to announce the piece whatever the store did.
handle_new_piece_always(storeOk) == "emit"

\* handle_new_piece, line 162: what follows store_piece_in_file.
handle_new_piece(storeOk) == IF storeOk THEN "emit" ELSE "return_piece"

\* ------------------------------------------------------------------ locks
LockNames == {"piece_queue", "dl_finished", "bf_pieces"}

\* The lock the session takes next at each place of start_download:
\* fetch_piece and return_piece write-lock the queue, download_finished and
\* has_any_wanted_piece read-lock the flag and the bitfield.
wanted_lock(at) ==
  CASE at \in {"fetch", "return_piece", "drop_connection"} -> "piece_queue"
    [] at = "check_finished" -> "dl_finished"
    [] at = "check_wanted" -> "bf_pieces"
    [] OTHER -> "none"

\* A guard, were it to outlive the function that took it.
released_never(mine, l) == mine

\* The guard of lock l goes out of scope at the end of the if-let that took it.
released(mine, l) == mine \ {l}

\* The write lock of the queue is free.
QueueFree == \A t \in Sessions : "piece_queue" \notin locks[t]

Unlock(s, l) == [locks EXCEPT ![s] = released(locks[s], l)]

\* ---------------------------------------------------------------- actions
\* exchange_handshake, lines 86-88: the handshake is sent and the remote's
\* is read; either can fail.
HandshakeExchange(s) ==
  /\ pc[s] = "start"
  /\ \E sendOk \in BOOLEAN, readOk \in BOOLEAN, h \in RemoteHandshakes :
       IF sendOk /\ readOk
       THEN /\ remote' = [remote EXCEPT ![s] = h]
            /\ pc' = [pc EXCEPT ![s] = "handshake_read"]
       ELSE /\ remote' = remote
            /\ pc' = [pc EXCEPT ![s] = "done"]
  /\ UNCHANGED <<sessVars, held, fetched, evts, piece_queue, envVars, reads,
                 ioVars, stored, locks, codecVars>>

\* exchange_handshake, lines 89-95: is_valid, update_id and the result.
HandshakeCheck(s) ==
  /\ pc[s] = "handshake_read"
  /\ IF is_valid(remote[s], InfoHash)
     THEN /\ peer_id' = [peer_id EXCEPT ![s] = remote[s].peer_id]
          /\ pc' = [pc EXCEPT ![s] = "announce"]
     ELSE /\ peer_id' = peer_id
          /\ pc' = [pc EXCEPT ![s] = "done"]
  /\ UNCHANGED <<am_choked, am_interested, pieces, held, remote, fetched, evts,
                 piece_queue, envVars, reads, ioVars, stored, locks, codecVars>>

\* start_download, line 117, second half: announce_new_connection.
Announce(s) ==
  /\ pc[s] = "announce"
  /\ IF sink_open
     THEN /\ evts' = [evts EXCEPT ![s] = Send(s, "NewConnection", -1, "")]
          /\ pc' = [pc EXCEPT ![s] = "fetch"]
     ELSE /\ evts' = evts
          /\ pc' = [pc EXCEPT ![s] = "done"]
  /\ remote' = [remote EXCEPT ![s] = NoHandshake]
  /\ UNCHANGED <<sessVars, held, fetched, piece_queue, envVars, reads,
                 ioVars, stored, locks, codecVars>>

\* piece_queue.write(), dl_pieces.read(): the session takes the lock its
\* next operation works under.  The queue's is exclusive; the flag's and the
\* bitfield's are shared among the sessions, which only read them.
Acquire(s) ==
  /\ wanted_lock(pc[s]) \in LockNames
  /\ wanted_lock(pc[s]) \notin locks[s]
  /\ wanted_lock(pc[s]) = "piece_queue" => QueueFree
  /\ locks' = [locks EXCEPT ![s] = locks[s] \cup {wanted_lock(pc[s])}]
  /\ UNCHANGED <<pc, sessVars, held, remote, fetched, evts, piece_queue,
                 envVars, reads, ioVars, stored, codecVars>>

\* Top of the loop: fetch_piece, under the queue's lock.
Fetch(s) ==
  /\ pc[s] = "fetch"
  /\ "piece_queue" \in locks[s]
  /\ LET r == fetch_piece(piece_queue) IN
       /\ piece_queue' = r.queue
       /\ held' = [held EXCEPT ![s] = r.piece]
       /\ pc' = [pc EXCEPT ![s] = IF r.ok THEN "download" ELSE "check_finished"]
       /\ fetched' = [fetched EXCEPT ![s] =
            IF r.ok THEN Append(fetched[s], [idx |-> r.piece[1].idx, res |-> "None"])
            ELSE fetched[s]]
  /\ locks' = Unlock(s, "piece_queue")
  /\ UNCHANGED <<sessVars, remote, evts, envVars, reads, ioVars, stored, codecVars>>

\* Line 137, left operand of ||.  dl_pieces.read() fails iff the lock is
\* poisoned, which it stays once a read has found it so.
CheckFinished(s) ==
  /\ pc[s] = "check_finished"
  /\ "dl_finished" \in locks[s]
  /\ \E poisoned \in (IF dl_poisoned THEN {TRUE} ELSE BOOLEAN) :
       /\ dl_poisoned' = poisoned
       /\ pc' = [pc EXCEPT ![s] =
                   IF download_finished(dl_finished, poisoned)
                   THEN "drop_send" ELSE "check_wanted"]
  /\ locks' = Unlock(s, "dl_finished")
  /\ UNCHANGED <<sessVars, held, remote, fetched, evts, piece_queue, sink_open,
                 dl_finished, bf_pieces, bf_poisoned, reads, ioVars, stored,
                 codecVars>>

\* Line 137, right operand of ||, and the yield of line 141.
CheckWanted(s) ==
  /\ pc[s] = "check_wanted"
  /\ "bf_pieces" \in locks[s]
  /\ \E poisoned \in (IF bf_poisoned THEN {TRUE} ELSE BOOLEAN) :
       /\ bf_poisoned' = poisoned
       /\ pc' = [pc EXCEPT ![s] =
                   IF ~has_any_wanted_piece(pieces[s], bf_pieces, poisoned)
                   THEN "drop_send" ELSE "fetch"]
  /\ locks' = Unlock(s, "bf_pieces")
  /\ UNCHANGED <<sessVars, held, remote, fetched, evts, piece_queue, sink_open,
                 dl_finished, dl_poisoned, bf_pieces, reads, ioVars, stored,
                 codecVars>>

\* download_piece: the loop test, keep_connection_alive, interested_in_piece
\* and the choice between requesting and reading; or the end of the loop.
Download(s) ==
  /\ pc[s] = "download"
  /\ LET p == held[s][1] IN
     IF p.dl < p.tl
     THEN \E sendOk \in BOOLEAN :
            LET interested == am_interested[s] \/ sendOk IN
            /\ am_interested' = [am_interested EXCEPT ![s] = interested]
            /\ evts' = [evts EXCEPT ![s] =
                 IF ~am_interested[s] /\ sendOk
                 THEN Send(s, "OurStatus", -1,
                           IF am_choked[s] THEN "choked | interested"
                           ELSE "unchoked | interested")
                 ELSE evts[s]]
            /\ pc' = [pc EXCEPT ![s] =
                 IF may_request(am_choked[s], interested)
                 THEN "request" ELSE "receive"]
            /\ fetched' = fetched
     ELSE /\ pc' = [pc EXCEPT ![s] = match_result(download_result(p))]
          /\ fetched' = Ended(s, download_result(p))
          /\ UNCHANGED <<am_interested, evts>>
  /\ UNCHANGED <<am_choked, pieces, peer_id, held, remote, piece_queue, envVars,
                 reads, ioVars, stored, locks, codecVars>>

\* request_a_piece: one turn of its loop.  A turn whose send failed leaves
\* the piece as it was and the loop where it was.
Request(s) ==
  /\ pc[s] = "request"
  /\ LET p == held[s][1] IN
     IF p.rq < p.tl
     THEN \E sendOk \in BOOLEAN :
            LET r == request_a_piece(p, sendOk) IN
            /\ held' = [held EXCEPT ![s] = <<r.piece>>]
            /\ requests' = [requests EXCEPT ![s] = requests[s] \o r.sent]
            /\ retry' = [retry EXCEPT ![s] = IF sendOk THEN FALSE ELSE ~retry[s]]
            /\ pc' = pc
     ELSE /\ pc' = [pc EXCEPT ![s] = "receive"]
          /\ retry' = [retry EXCEPT ![s] = FALSE]
          /\ UNCHANGED <<held, requests>>
  /\ UNCHANGED <<sessVars, remote, fetched, evts, piece_queue, envVars, reads,
                 msg, stored, locks, codecVars>>

\* receive_message: the read failed (an I/O error or the 5 s timeout).
ReceiveFails(s) ==
  /\ pc[s] = "receive"
  /\ pc' = [pc EXCEPT ![s] = match_result("CannotReadPeerMessage")]
  /\ fetched' = Ended(s, "CannotReadPeerMessage")
  /\ UNCHANGED <<sessVars, held, remote, evts, piece_queue, envVars, reads,
                 ioVars, stored, locks, codecVars>>

\* receive_message: one frame read.  The remote sends a frame of FF; at most
\* `most` frames are delivered in all.  A Choke ends the piece here; any
\* other frame goes to handle_msg.
Receive(s, FF, most) ==
  /\ pc[s] = "receive"
  /\ reads < most
  /\ reads' = reads + 1
  /\ \E f \in FF :
       IF f.type = "Choke"
       THEN /\ am_choked' = [am_choked EXCEPT ![s] = TRUE]
            /\ pc' = [pc EXCEPT ![s] = match_result("PeerChokedUs")]
            /\ fetched' = Ended(s, "PeerChokedUs")
            /\ msg' = msg
       ELSE /\ msg' = [msg EXCEPT ![s] = f]
            /\ pc' = [pc EXCEPT ![s] = "handle_msg"]
            /\ UNCHANGED <<am_choked, fetched>>
  /\ UNCHANGED <<am_interested, pieces, peer_id, held, remote, evts, piece_queue,
                 envVars, requests, retry, stored, locks, codecVars>>

\* handle_msg on the frame read, and the return to download_piece's loop.
HandleMsg(s) ==
  /\ pc[s] = "handle_msg"
  /\ LET r == handle_msg(msg[s], am_choked[s], pieces[s], held[s][1]) IN
       /\ am_choked' = [am_choked EXCEPT ![s] = r.am_choked]
       /\ pieces' = [pieces EXCEPT ![s] = r.pieces]
       /\ held' = [held EXCEPT ![s] = <<r.piece>>]
       /\ evts' = [evts EXCEPT ![s] =
            IF r.status
            THEN Send(s, "OurStatus", -1,
                      IF am_interested[s] THEN "unchoked / interested"
                      ELSE "unchoked / not interested")
            ELSE evts[s]]
  /\ msg' = [msg EXCEPT ![s] = NoMsg]
  /\ pc' = [pc EXCEPT ![s] = "download"]
  /\ UNCHANGED <<am_interested, peer_id, remote, fetched, piece_queue, envVars,
                 reads, requests, retry, stored, locks, codecVars>>

\* handle_new_piece: store_piece_in_file, then the event, or on to
\* return_piece.
HandleNewPiece(s) ==
  /\ pc[s] = "handle_new_piece"
  /\ \E storeOk \in BOOLEAN :
       /\ stored' = IF storeOk THEN stored \cup {held[s][1].idx} ELSE stored
       /\ IF handle_new_piece(storeOk) = "emit"
          THEN /\ evts' = [evts EXCEPT ![s] =
                    Send(s, "NewDownloadedPiece", held[s][1].idx, "")]
               /\ held' = [held EXCEPT ![s] = <<>>]
               /\ requests' = [requests EXCEPT ![s] = <<>>]
               /\ pc' = [pc EXCEPT ![s] = "fetch"]
          ELSE /\ pc' = [pc EXCEPT ![s] = "return_piece"]
               /\ UNCHANGED <<evts, held, requests>>
  /\ UNCHANGED <<sessVars, remote, fetched, piece_queue, envVars, reads, msg,
                 retry, locks, codecVars>>

\* return_piece, after InvalidPiece (line 126) or a failed store (line 175),
\* under the queue's lock.
ReturnInvalid(s) ==
  /\ pc[s] = "return_piece"
  /\ "piece_queue" \in locks[s]
  /\ piece_queue' = return_piece(piece_queue, held[s][1])
  /\ held' = [held EXCEPT ![s] = <<>>]
  /\ requests' = [requests EXCEPT ![s] = <<>>]
  /\ pc' = [pc EXCEPT ![s] = "fetch"]
  /\ locks' = Unlock(s, "piece_queue")
  /\ UNCHANGED <<sessVars, remote, fetched, evts, envVars, reads, msg, retry,
                 stored, codecVars>>

\* drop_connection(Some(piece)), lines 180-182, under the queue's lock.
DropReturn(s) ==
  /\ pc[s] = "drop_connection"
  /\ "piece_queue" \in locks[s]
  /\ piece_queue' = drop_connection(piece_queue, held[s])
  /\ held' = [held EXCEPT ![s] = <<>>]
  /\ requests' = [requests EXCEPT ![s] = <<>>]
  /\ pc' = [pc EXCEPT ![s] = "drop_send"]
  /\ locks' = Unlock(s, "piece_queue")
  /\ UNCHANGED <<sessVars, remote, fetched, evts, envVars, reads, msg, retry,
                 stored, codecVars>>

\* drop_connection, lines 184-187, and the return of start_download.
DropSend(s) ==
  /\ pc[s] = "drop_send"
  /\ evts' = [evts EXCEPT ![s] = Send(s, "ConnectionDropped", -1, "")]
  /\ pc' = [pc EXCEPT ![s] = "done"]
  /\ UNCHANGED <<sessVars, held, remote, fetched, piece_queue, envVars, reads,
                 ioVars, stored, locks, codecVars>>

\* ------------------------------------------------------------ environment
\* The client drops the receiver of the event channel.
CloseSink ==
  /\ sink_open
  /\ sink_open' = FALSE
  /\ UNCHANGED <<pc, sessVars, held, remote, fetched, evts, piece_queue,
                 dl_finished, dl_poisoned, bf_pieces, bf_poisoned, reads,
                 ioVars, stored, locks, codecVars>>

\* The NewDownloadedPiece events the client received are for piece i.
Delivered(i) ==
  \E s \in Sessions : \E k \in 1..Len(evts[s]) :
    /\ evts[s][k].kind = "NewDownloadedPiece"
    /\ evts[s][k].piece = i
    /\ evts[s][k].delivered

\* The client sets the completion flag, once it has every piece, under the
\* flag's write lock.
SetFinished ==
  /\ ~dl_finished
  /\ ~dl_poisoned
  /\ \A i \in PieceIdx : Delivered(i)
  /\ \A s \in Sessions : "dl_finished" \notin locks[s]
  /\ dl_finished' = TRUE
  /\ UNCHANGED <<pc, sessVars, held, remote, fetched, evts, piece_queue,
                 sink_open, dl_poisoned, bf_pieces, bf_poisoned, reads,
                 ioVars, stored, locks, codecVars>>

\* The client records a piece it was told of as completed, under the
\* bitfield's write lock.
MarkCompleted(i) ==
  /\ ~bf_poisoned
  /\ i \notin bf_pieces
  /\ Delivered(i)
  /\ \A s \in Sessions : "bf_pieces" \notin locks[s]
  /\ bf_pieces' = bf_pieces \cup {i}
  /\ UNCHANGED <<pc, sessVars, held, remote, fetched, evts, piece_queue,
                 sink_open, dl_finished, dl_poisoned, bf_poisoned, reads,
                 ioVars, stored, locks, codecVars>>

\* A step of session s.
Session(s, FF, most) ==
  \/ HandshakeExchange(s)
  \/ HandshakeCheck(s)
  \/ Announce(s)
  \/ Acquire(s)
  \/ Fetch(s)
  \/ CheckFinished(s)
  \/ CheckWanted(s)
  \/ Download(s)
  \/ Request(s)
  \/ ReceiveFails(s)
  \/ Receive(s, FF, most)
  \/ HandleMsg(s)
  \/ HandleNewPiece(s)
  \/ ReturnInvalid(s)
  \/ DropReturn(s)
  \/ DropSend(s)

Client ==
  \/ CloseSink
  \/ SetFinished
  \/ \E i \in PieceIdx : MarkCompleted(i)

\* All the sessions, run concurrently against peers that answer requests.
Next ==
  \/ \E s \in Sessions : Session(s, AnsweringFrames, MaxSharedReads)
  \/ Client

Spec == Init /\ [][Next]_vars

\* One session alone, against a peer that may send any frame.
NextSession ==
  \/ Session(1, Frames, MaxReads)
  \/ Client

SpecSession == Init /\ [][NextSession]_vars

\* One session alone, its thread always scheduled again: whatever step it
\* can take, it eventually takes one.  Nothing is assumed of the remote or
\* of the client.
SpecLive == SpecSession /\ WF_vars(Session(1, Frames, MaxReads))

\* ------------------------------------------------------------- codec runs
\* A message is built; send_msg writes it; read_msg reads the bytes back.
InitCodec ==
  /\ pc = [s \in Sessions |-> "start"]
  /\ am_choked = [s \in Sessions |-> TRUE]
  /\ am_interested = [s \in Sessions |-> FALSE]
  /\ pieces = [s \in Sessions |-> {}]
  /\ peer_id = [s \in Sessions |-> 0]
  /\ held = [s \in Sessions |-> <<>>]
  /\ remote = [s \in Sessions |-> NoHandshake]
  /\ fetched = [s \in Sessions |-> <<>>]
  /\ evts = [s \in Sessions |-> <<>>]
  /\ piece_queue = <<>>
  /\ sink_open = TRUE
  /\ dl_finished = FALSE
  /\ dl_poisoned = FALSE
  /\ bf_pieces = {}
  /\ bf_poisoned = FALSE
  /\ reads = 0
  /\ msg = [s \in Sessions |-> NoMsg]
  /\ requests = [s \in Sessions |-> <<>>]
  /\ retry = [s \in Sessions |-> FALSE]
  /\ stored = {}
  /\ locks = [s \in Sessions |-> {}]
  /\ c_msg \in {<<c>> : c \in CodecHandshakes \cup CodecPieces}
  /\ c_wire = <<>>
  /\ c_read = <<>>

sessionState ==
  <<pc, sessVars, held, remote, fetched, evts, piece_queue, envVars, reads,
    ioVars, stored, locks>>

CodecSend ==
  /\ c_msg[1].ok
  /\ c_wire = <<>>
  /\ c_wire' = send_msg(c_msg[1])
  /\ UNCHANGED <<sessionState, c_msg, c_read>>

CodecRead ==
  /\ c_wire # <<>>
  /\ c_read = <<>>
  /\ c_read' = <<read_msg(c_msg[1].kind, c_wire)>>
  /\ UNCHANGED <<sessionState, c_msg, c_wire>>

NextCodec == CodecSend \/ CodecRead

SpecCodec == InitCodec /\ [][NextCodec]_vars

\* ================================================================= claims
Last(q) == q[Len(q)]

Holds(s, i) == held[s] # <<>> /\ held[s][1].idx = i

InQueue(i) == Cardinality({k \in 1..Len(piece_queue) : piece_queue[k].idx = i})

HeldCount(i) == Cardinality({s \in Sessions : Holds(s, i)})

\* How many NewDownloadedPiece events were sent for piece i.
EmittedCount(i) ==
  Cardinality(UNION {{<<s, k>> : k \in {j \in 1..Len(evts[s]) :
                                          /\ evts[s][j].kind = "NewDownloadedPiece"
                                          /\ evts[s][j].piece = i}} :
                     s \in Sessions})

\* Session s takes a step that moves it in start_download.
Moves(s) == pc'[s] # pc[s]

InnerPcs == {"download", "request", "receive", "handle_msg"}

WorkingPcs ==
  InnerPcs \cup {"fetch", "check_finished", "check_wanted", "handle_new_piece",
                 "return_piece", "drop_connection", "drop_send"}

\* The session's last fetched piece ended with a failure that ends the session.
DroppedMidPiece(s) ==
  /\ fetched[s] # <<>>
  /\ Last(fetched[s]).res \in {"PeerChokedUs", "CannotReadPeerMessage"}

C2_AtMostOneHolder ==
  \A i \in PieceIdx :
    /\ \A s \in Sessions, t \in Sessions : Holds(s, i) /\ Holds(t, i) => s = t
    /\ \A s \in Sessions : Holds(s, i) => InQueue(i) = 0
    /\ InQueue(i) <= 1
    /\ i \in Emitted => InQueue(i) = 0 /\ \A s \in Sessions : ~Holds(s, i)

\* Two sessions hold a piece each, one of them a piece the other had fetched
\* and returned before.
C2_Witness ==
  \E s \in Sessions, t \in Sessions :
    /\ s # t
    /\ held[s] # <<>>
    /\ held[t] # <<>>
    /\ \E k \in 1..Len(fetched[t]) : fetched[t][k].idx = held[s][1].idx

\* ---------------------------------------------------------------------- C3
\* C3: for the piece a session is building,
\* 0 <= downloaded_offset <= requested_offset <= total_length, whatever the
\* remote sends.
C3_OffsetOrdering ==
  \A s \in Sessions :
    held[s] # <<>> =>
      /\ 0 <= held[s][1].dl
      /\ held[s][1].dl <= held[s][1].rq
      /\ held[s][1].rq <= held[s][1].tl

\* ---------------------------------------------------------------------- C4
\* C4: a session sends NewDownloadedPiece only from handle_new_piece, for the
\* piece it holds, whose download_piece ended Ok with a buffer that hashes to
\* the expected digest.
C4_HashGate ==
  [][\A s \in Sessions :
       (/\ Len(evts'[s]) > Len(evts[s])
        /\ Last(evts'[s]).kind = "NewDownloadedPiece")
       => /\ pc[s] = "handle_new_piece"
          /\ held[s] # <<>>
          /\ piece_is_valid(held[s][1])
          /\ Last(evts'[s]).piece = held[s][1].idx
          /\ Last(fetched[s]) = [idx |-> held[s][1].idx, res |-> "Ok"]]_vars

\* A session emitted a piece after another piece it had built failed the
\* hash check.
C4_Witness ==
  \E s \in Sessions :
    /\ EmittedBy(s) # {}
    /\ \E k \in 1..Len(fetched[s]) : fetched[s][k].res = "InvalidPiece"

\* ---------------------------------------------------------------------- C5
\* C5: a Choke frame or a failed read while a piece is held leaves the
\* session holding it (am_choked set on Choke); drop_connection then pushes
\* the piece, reset to offsets 0 and an empty buffer, on the back of the
\* queue before any event is sent; only the next step sends
\* ConnectionDropped, and the session is done: it fetches nothing more.
C5_MidPieceDrop ==
  [][\A s \in Sessions :
       /\ (pc[s] = "receive" /\ pc'[s] = "drop_connection")
          => /\ held[s] # <<>>
             /\ held'[s] = held[s]
             /\ reads' # reads => am_choked'[s]
             /\ evts'[s] = evts[s]
             /\ piece_queue' = piece_queue
       /\ (pc[s] = "drop_connection" /\ Moves(s))
          => /\ pc'[s] = "drop_send"
             /\ piece_queue' = Append(piece_queue, NewPiece(held[s][1].idx))
             /\ held'[s] = <<>>
             /\ evts'[s] = evts[s]
       /\ (pc[s] = "drop_send" /\ Moves(s))
          => /\ pc'[s] = "done"
             /\ held'[s] = <<>>
             /\ evts'[s] = Append(evts[s],
                                  Event("ConnectionDropped", -1, "", sink_open))
             /\ piece_queue' = piece_queue
       /\ pc[s] = "done"
          => /\ pc'[s] = "done"
             /\ held'[s] = <<>>
             /\ fetched'[s] = fetched[s]
             /\ evts'[s] = evts[s]]_vars

\* A session was choked mid-piece and is done, ConnectionDropped sent; the
\* piece it returned is now held, from offset 0, by another session.
C5_Witness ==
  \E s \in Sessions, t \in Sessions :
    /\ s # t
    /\ pc[s] = "done"
    /\ fetched[s] # <<>>
    /\ Last(fetched[s]).res = "PeerChokedUs"
    /\ am_choked[s]
    /\ Last(evts[s]).kind = "ConnectionDropped"
    /\ Holds(t, Last(fetched[s]).idx)
    /\ held[t][1].dl = 0
    /\ held[t][1].rq = 0

\* ---------------------------------------------------------------------- C6
\* C6: download_piece ends with InvalidPiece exactly when the piece is
\* complete and fails the hash check; the session then sends no event,
\* pushes the piece, reset, on the back of the queue and goes back to the
\* top of its loop.
C6_BadHashNonTerminal ==
  [][\A s \in Sessions :
       /\ (pc[s] = "download" /\ Moves(s))
          => (pc'[s] = "return_piece"
                <=> /\ held[s][1].dl >= held[s][1].tl
                    /\ ~piece_is_valid(held[s][1]))
       /\ (pc[s] = "download" /\ pc'[s] = "return_piece")
          => /\ evts'[s] = evts[s]
             /\ held'[s] = held[s]
             /\ Last(fetched'[s]).res = "InvalidPiece"
       /\ (pc[s] = "return_piece" /\ Moves(s))
          => /\ pc'[s] = "fetch"
             /\ piece_queue' = Append(piece_queue, NewPiece(held[s][1].idx))
             /\ held'[s] = <<>>
             /\ evts'[s] = evts[s]]_vars

\* A session built a piece that failed the hash check, went on, and later
\* emitted a piece, without ConnectionDropped in between.
C6_Witness ==
  \E s \in Sessions :
    \E k \in 1..Len(fetched[s]), j \in 1..Len(fetched[s]) :
      /\ k < j
      /\ fetched[s][k].res = "InvalidPiece"
      /\ fetched[s][j].res = "Ok"
      /\ fetched[s][j].idx \in EmittedBy(s)
      /\ "ConnectionDropped" \notin Kinds(s)

\* ---------------------------------------------------------------------- C7
NothingWanted(s) == ~there_is_match(pieces[s], get_complement(bf_pieces))

\* C7 as claimed: a session that enters Working while the remote advertises
\* nothing we still need pops no piece, whatever the queue holds.
C7_DropWhateverQueue ==
  [][\A s \in Sessions :
       (pc[s] = "fetch" /\ fetched[s] = <<>> /\ NothingWanted(s) /\ Moves(s))
       => held'[s] = <<>>]_vars

\* C7 amended: a session enters Working with remote_pieces all zero, so the
\* remote advertises nothing we need.  If its first pop finds the queue
\* empty it pops nothing, never reaches request_a_piece, and goes by the two
\* checks to drop_connection(None): ConnectionDropped and the end.  If the
\* queue is not empty it pops the front piece all the same.
C7_DropWhenQueueEmpty ==
  /\ [](\A s \in Sessions :
          fetched[s] = <<>> =>
            /\ pieces[s] = {}
            /\ held[s] = <<>>
            /\ pc[s] \notin InnerPcs)
  /\ [][\A s \in Sessions :
          /\ (pc[s] = "fetch" /\ Moves(s))
             => IF piece_queue = <<>>
                THEN pc'[s] = "check_finished" /\ held'[s] = <<>>
                ELSE pc'[s] = "download" /\ held'[s] = <<Head(piece_queue)>>
          /\ (pc[s] = "check_finished" /\ Moves(s))
             => pc'[s] \in {"drop_send", "check_wanted"} /\ held'[s] = <<>>
          /\ (pc[s] = "check_wanted" /\ NothingWanted(s) /\ Moves(s))
             => pc'[s] = "drop_send" /\ held'[s] = <<>>
          /\ (pc[s] = "drop_send" /\ fetched[s] = <<>> /\ Moves(s))
             => /\ pc'[s] = "done"
                /\ Kinds(s)' = {"NewConnection", "ConnectionDropped"}
                /\ fetched'[s] = <<>>]_vars

\* A session entered Working, found the queue empty at its first pop and
\* ended with ConnectionDropped, having fetched no piece.
C7_Witness ==
  \E s \in Sessions :
    /\ pc[s] = "done"
    /\ fetched[s] = <<>>
    /\ Len(evts[s]) = 2
    /\ evts[s][1].kind = "NewConnection"
    /\ evts[s][2].kind = "ConnectionDropped"

\* ---------------------------------------------------------------------- C8
PreWorkingPcs == {"start", "handshake_read", "announce"}

\* C8: the handshake is accepted iff the info hash read equals the
\* torrent's, whatever pstr and reserved are, and the peer id read is
\* stored; the session is in Working only after a delivered NewConnection
\* as its first event; a session that fails the handshake or whose
\* NewConnection cannot be sent is done with no event sent and no piece
\* fetched.
C8_HandshakeGate ==
  /\ [](\A s \in Sessions :
          /\ pc[s] \in PreWorkingPcs
             => evts[s] = <<>> /\ fetched[s] = <<>> /\ held[s] = <<>>
          /\ pc[s] \in WorkingPcs
             => /\ evts[s] # <<>>
                /\ evts[s][1] = Event("NewConnection", -1, "", TRUE)
                /\ peer_id[s] # 0
          /\ evts[s] = <<>> => fetched[s] = <<>> /\ held[s] = <<>>
          /\ evts[s] # <<>> => evts[s][1].kind = "NewConnection")
  /\ [][\A s \in Sessions :
          /\ (pc[s] = "start" /\ Moves(s))
             => pc'[s] \in {"handshake_read", "done"}
          /\ (pc[s] = "handshake_read" /\ Moves(s))
             => IF remote[s].info_hash = InfoHash
                THEN pc'[s] = "announce" /\ peer_id'[s] = remote[s].peer_id
                ELSE pc'[s] = "done"
          /\ (pc[s] = "announce" /\ Moves(s))
             => IF sink_open
                THEN pc'[s] = "fetch"
                ELSE pc'[s] = "done" /\ evts'[s] = <<>>
          /\ (pc[s] \in PreWorkingPcs /\ pc'[s] = "done")
             => evts'[s] = <<>> /\ fetched'[s] = <<>>]_vars

\* A handshake with another pstr and non-zero reserved bytes, and the
\* torrent's info hash, was accepted and its peer id stored.
C8_Witness ==
  \E s \in Sessions :
    /\ pc[s] = "announce"
    /\ remote[s].pstr # PSTR
    /\ remote[s].reserved # 0
    /\ remote[s].info_hash = InfoHash
    /\ peer_id[s] = remote[s].peer_id

\* ---------------------------------------------------------------------- C9
\* C9: with the queue empty, a completion flag that cannot be read counts as
\* "not complete" and a completed-pieces bitfield that cannot be read keeps
\* the session alive: where a readable bitfield would have kept it, it yields
\* and retries the pop instead of ending.
C9_UnreadableMonitorKeepsAlive ==
  [][\A s \in Sessions :
       /\ (pc[s] = "check_finished" /\ Moves(s) /\ dl_poisoned')
          => pc'[s] = "check_wanted"
       /\ (pc[s] = "check_wanted" /\ Moves(s) /\ bf_poisoned'
             /\ there_is_match(pieces[s], get_complement(bf_pieces)))
          => pc'[s] = "fetch"]_vars

\* --------------------------------------------------------------------- C10
OutcomePcs == {"handle_new_piece", "return_piece", "drop_connection"}

QueuePcs == {"fetch", "return_piece", "drop_connection"}

\* Session s waits for the queue's lock, which another session holds.
WaitsForQueue(s) ==
  /\ pc[s] \in QueuePcs
  /\ "piece_queue" \notin locks[s]
  /\ ~QueueFree

\* C11: a session holds at most one of the three locks; it holds the queue's
\* only at a pop or a push, the flag's only at the read of the flag and the
\* bitfield's only at the read of the bitfield, never where it sends, reads,
\* writes a file or sends an event; the step it takes under the queue's lock
\* is that one pop or push and gives the lock back; and every session that
\* is not done can step, or waits for the queue's lock held by one that can.
C11_LockDiscipline ==
  /\ [](\A s \in Sessions :
          /\ Cardinality(locks[s]) <= 1
          /\ "piece_queue" \in locks[s] => pc[s] \in QueuePcs
          /\ "dl_finished" \in locks[s] => pc[s] = "check_finished"
          /\ "bf_pieces" \in locks[s] => pc[s] = "check_wanted"
          /\ \A t \in Sessions :
               "piece_queue" \in locks[s] \cap locks[t] => s = t
          /\ pc[s] # "done" =>
               \/ ENABLED Session(s, AnsweringFrames, MaxSharedReads)
               \/ \E t \in Sessions :
                    /\ "piece_queue" \in locks[t]
                    /\ ENABLED Session(t, AnsweringFrames, MaxSharedReads))
  /\ [][\A s \in Sessions :
          ("piece_queue" \in locks[s] /\ Moves(s))
          => /\ locks'[s] = {}
             /\ \/ piece_queue = <<>> /\ piece_queue' = <<>> /\ held'[s] = <<>>
                \/ piece_queue # <<>> /\ piece_queue' = Tail(piece_queue)
                     /\ held'[s] = <<Head(piece_queue)>>
                \/ held[s] # <<>> /\ held'[s] = <<>>
                     /\ piece_queue' = Append(piece_queue, NewPiece(held[s][1].idx))
             /\ evts' = evts /\ reads' = reads /\ stored' = stored]_vars

\* One session holds the queue's lock for a push while another, which has a
\* pop to make, waits for it.
C11_Witness ==
  \E s \in Sessions, t \in Sessions :
    /\ "piece_queue" \in locks[s]
    /\ pc[s] \in {"return_piece", "drop_connection"}
    /\ pc[t] = "fetch"
    /\ WaitsForQueue(t)

\* --------------------------------------------------------------------- C12
\* The Request frames r sent for piece p are the first Len(r) tiles of it.
TilesPrefix(r, p) ==
  /\ \A k \in 1..Len(r) :
       /\ r[k].idx = p.idx
       /\ r[k].begin = (k - 1) * BLOCK_SIZE
       /\ r[k].begin < p.tl
       /\ r[k].len = Min(BLOCK_SIZE, p.tl - r[k].begin)
  /\ p.rq = (IF r = <<>> THEN 0 ELSE Last(r).begin + Last(r).len)

\* C12: the Request frames a session has sent for the piece it holds are
\* the tiles of [0, total_length) in increasing order, none twice, each of
\* min(16384, total_length - begin) bytes; a session that reads a frame while
\* interested and unchoked has sent them all; the last piece, no longer than
\* a block, gets one Request of its whole length, and the one Piece frame
\* that answers it completes the piece.
C12_RequestTiling ==
  /\ [](\A s \in Sessions :
          /\ held[s] = <<>> => requests[s] = <<>>
          /\ held[s] # <<>> =>
               /\ TilesPrefix(requests[s], held[s][1])
               /\ (pc[s] \in {"receive", "handle_msg"}
                     /\ ~am_choked[s] /\ am_interested[s])
                  => held[s][1].rq = held[s][1].tl
               /\ (held[s][1].idx = NPieces - 1 /\ requests[s] # <<>>)
                  => requests[s] = <<[idx |-> NPieces - 1, begin |-> 0,
                                      len |-> LastPieceLength]>>)
  /\ [][\A s \in Sessions :
          /\ (pc[s] = "request" /\ Moves(s))
             => /\ pc'[s] = "receive"
                /\ held[s][1].rq = held[s][1].tl
                /\ requests'[s] = requests[s]
          /\ (/\ pc[s] = "handle_msg" /\ Moves(s)
              /\ requests[s] = <<[idx |-> NPieces - 1, begin |-> 0,
                                  len |-> LastPieceLength]>>
              /\ held[s][1].dl = 0
              /\ msg[s].type = "Piece" /\ msg[s].idx = NPieces - 1
              /\ msg[s].begin = 0 /\ msg[s].len = LastPieceLength)
             => held'[s][1].dl = held[s][1].tl
          /\ (pc[s] = "download" /\ held[s][1].dl >= held[s][1].tl /\ Moves(s))
             => pc'[s] \in OutcomePcs]_vars

\* A session, unchoked, downloaded a piece of two blocks and then the last
\* piece, for which it sent the one Request of LastPieceLength bytes.
C12_Witness ==
  \E s \in Sessions :
    /\ pc[s] = "handle_new_piece"
    /\ held[s][1].idx = NPieces - 1
    /\ requests[s] = <<[idx |-> NPieces - 1, begin |-> 0, len |-> LastPieceLength]>>
    /\ Len(fetched[s]) = 2
    /\ fetched[s][1] = [idx |-> 0, res |-> "Ok"]
    /\ ~am_choked[s]

\* --------------------------------------------------------------------- C13
\* C13: the bytes send_msg wrote read back as the message that was sent; a
\* Piece frame is 4 + 9 + |block| bytes and its length field 9 + |block|; a
\* Handshake is 49 + pstrlen bytes and pstrlen is the length of pstr.
C13_RoundTrip ==
  /\ c_read # <<>> => c_read[1].ok /\ c_read[1].m = c_msg[1].m
  /\ (c_wire # <<>> /\ c_msg[1].kind = "Piece")
     => /\ Len(c_wire) = 4 + 9 + Len(c_msg[1].m.block)
        /\ from_be_bytes(Take(c_wire, 1, 4)) = 9 + Len(c_msg[1].m.block)
  /\ (c_wire # <<>> /\ c_msg[1].kind = "Handshake")
     => /\ Len(c_wire) = 49 + c_msg[1].m.pstrlen
        /\ c_msg[1].m.pstrlen = Len(c_msg[1].m.pstr)

\* --------------------------------------------------------------------- C14
\* C14: a Request frame is sent only while am_interested is true and
\* am_choked is false; am_interested turns true only in download_piece
\* (a sent Interested), am_choked turns false only by an Unchoke frame read;
\* a session still choked has sent no Request for the piece it holds.
C14_RequestsOnlyWhenPermitted ==
  /\ [](\A s \in Sessions :
          /\ pc[s] = "request" => am_interested[s] /\ ~am_choked[s]
          /\ (am_choked[s] /\ "PeerChokedUs" \notin {fetched[s][k].res : k \in 1..Len(fetched[s])})
             => requests[s] = <<>>)
  /\ [][\A s \in Sessions :
          /\ requests'[s] # requests[s] /\ requests'[s] # <<>>
             => /\ am_interested[s] /\ ~am_choked[s]
                /\ pc[s] = "request"
          /\ (~am_interested[s] /\ am_interested'[s]) => pc[s] = "download"
          /\ (am_choked[s] /\ ~am_choked'[s])
             => pc[s] = "handle_msg" /\ msg[s].type = "Unchoke"
          /\ am_interested[s] => am_interested'[s]]_vars

\* A session that was sent Unchoke and had sent Interested has sent a
\* Request.
C14_Witness ==
  \E s \in Sessions :
    /\ requests[s] # <<>>
    /\ am_interested[s] /\ ~am_choked[s]
    /\ pc[s] = "request"

\* --------------------------------------------------------------------- C15
\* Session s dispatches the frame it read.
Dispatches(s) == pc[s] = "handle_msg" /\ Moves(s)

\* C15: a Piece frame is accepted iff its begin is the downloaded offset and
\* its index the held piece's; the block is then appended and the offset
\* advances by the block's length; any other Piece frame changes nothing of
\* the piece; neither changes the requested offset, am_choked or
\* am_interested, or ends the session or the piece.
C15_PieceAcceptance ==
  [][\A s \in Sessions :
       (Dispatches(s) /\ msg[s].type = "Piece")
       => LET p == held[s][1]
              f == msg[s] IN
          /\ IF f.begin = p.dl /\ f.idx = p.idx
             THEN /\ held'[s][1].dl = p.dl + f.len
                  /\ held'[s][1].blocks.len = p.blocks.len + f.len
                  /\ held'[s][1].blocks.good = (p.blocks.good /\ f.good)
                  /\ held'[s][1].rq = p.rq
                  /\ held'[s][1].idx = p.idx
                  /\ held'[s][1].tl = p.tl
             ELSE held'[s] = held[s]
          /\ am_choked'[s] = am_choked[s]
          /\ am_interested'[s] = am_interested[s]
          /\ pieces'[s] = pieces[s]
          /\ evts'[s] = evts[s]
          /\ fetched'[s] = fetched[s]
          /\ pc'[s] = "download"]_vars

\* A session that has accepted a block is about to dispatch a Piece frame
\* for the same piece that begins at 0 again.
C15_Witness ==
  \E s \in Sessions :
    /\ pc[s] = "handle_msg"
    /\ msg[s].type = "Piece"
    /\ msg[s].idx = held[s][1].idx
    /\ msg[s].begin = 0
    /\ held[s][1].dl > 0
    /\ held[s][1].dl < held[s][1].tl

\* --------------------------------------------------------------------- C16
\* C16: Request, Cancel, Interested, NotInterested and KeepAlive change
\* nothing of the session or of the piece; Unchoke clears am_choked, sends
\* one OurStatus event and changes nothing else; Bitfield and Have change
\* only what the remote is known to have; after each the session is back in
\* the loop of download_piece.
C16_FrameDispatch ==
  [][\A s \in Sessions :
       (Dispatches(s) /\ msg[s].type # "Piece")
       => /\ pc'[s] = "download"
          /\ fetched'[s] = fetched[s]
          /\ held'[s] = held[s]
          /\ requests'[s] = requests[s]
          /\ am_interested'[s] = am_interested[s]
          /\ peer_id'[s] = peer_id[s]
          /\ piece_queue' = piece_queue
          /\ msg[s].type \in IgnoredTypes
             => /\ am_choked'[s] = am_choked[s]
                /\ pieces'[s] = pieces[s]
                /\ evts'[s] = evts[s]
          /\ msg[s].type = "Unchoke"
             => /\ ~am_choked'[s]
                /\ pieces'[s] = pieces[s]
                /\ Len(evts'[s]) = Len(evts[s]) + 1
                /\ SubSeq(evts'[s], 1, Len(evts[s])) = evts[s]
                /\ Last(evts'[s]).kind = "OurStatus"
          /\ msg[s].type = "Bitfield"
             => /\ pieces'[s] = msg[s].bits
                /\ am_choked'[s] = am_choked[s]
                /\ evts'[s] = evts[s]
          /\ msg[s].type = "Have"
             => /\ pieces'[s] = pieces[s] \cup {msg[s].idx}
                /\ am_choked'[s] = am_choked[s]
                /\ evts'[s] = evts[s]
          /\ msg[s].type \in IgnoredTypes \cup {"Unchoke", "Bitfield", "Have"}]_vars

\* A session that was unchoked and told what the remote has is about to
\* dispatch a Have frame for one more piece.
C16_Witness ==
  \E s \in Sessions :
    /\ pc[s] = "handle_msg"
    /\ msg[s].type = "Have"
    /\ msg[s].idx \notin pieces[s]
    /\ pieces[s] # {}
    /\ ~am_choked[s]

\* --------------------------------------------------------------------- C17
\* The piece is as reset_info leaves it.
Pristine(p) == p.rq = 0 /\ p.dl = 0 /\ p.blocks = NoBlocks

\* C17: NewDownloadedPiece is sent only for a piece whose file was written;
\* when the file of a valid piece cannot be written no event is sent, the
\* piece stays with the session until return_piece pushes it back reset,
\* and the session goes on to fetch the next piece.
C17_PersistFailureRecoverable ==
  /\ [](\A s \in Sessions : \A k \in 1..Len(evts[s]) :
          evts[s][k].kind = "NewDownloadedPiece" => evts[s][k].piece \in stored)
  /\ [][\A s \in Sessions :
          /\ (pc[s] = "handle_new_piece" /\ Moves(s))
             => IF held[s][1].idx \in stored'
                THEN /\ evts'[s] = Send(s, "NewDownloadedPiece", held[s][1].idx, "")
                     /\ pc'[s] = "fetch"
                ELSE /\ evts'[s] = evts[s]
                     /\ held'[s] = held[s]
                     /\ piece_queue' = piece_queue
                     /\ pc'[s] = "return_piece"
          /\ (pc[s] = "return_piece" /\ Moves(s))
             => /\ evts'[s] = evts[s]
                /\ Len(piece_queue') = Len(piece_queue) + 1
                /\ Last(piece_queue').idx = held[s][1].idx
                /\ Pristine(Last(piece_queue'))
                /\ held'[s] = <<>>
                /\ pc'[s] = "fetch"]_vars

\* A session is downloading again after a valid piece of its own could not
\* be written: that piece was announced by no one.
C17_Witness ==
  \E s \in Sessions : \E k \in 1..Len(fetched[s]) :
    /\ k < Len(fetched[s])
    /\ fetched[s][k].res = "Ok"
    /\ fetched[s][k].idx \notin Emitted
    /\ fetched[s][k].idx \notin stored
    /\ pc[s] \in InnerPcs

\* --------------------------------------------------------------------- C18
\* The events of session s are NewConnection, then OurStatus and
\* NewDownloadedPiece events, then at most one ConnectionDropped.
EventOrder(s) ==
  LET e == evts[s] IN
  /\ e # <<>> => e[1].kind = "NewConnection"
  /\ \A k \in 2..Len(e) : e[k].kind # "NewConnection"
  /\ \A k \in 1..Len(e) :
       e[k].kind = "ConnectionDropped" => k = Len(e) /\ pc[s] = "done"
  /\ \A k \in 1..Len(e) :
       e[k].kind \in {"OurStatus", "NewDownloadedPiece"}
       => /\ 1 < k
          /\ pc[s] = "done" => k < Len(e)

\* C18: a session in Working sent NewConnection first and only once; when
\* it has ended its last event is its only ConnectionDropped; OurStatus and
\* NewDownloadedPiece lie between the two; an ended session sends nothing.
C18_EventOrder ==
  /\ [](\A s \in Sessions :
          /\ pc[s] \in WorkingPcs => evts[s] # <<>>
          /\ EventOrder(s)
          /\ (pc[s] = "done" /\ evts[s] # <<>>)
             => Last(evts[s]).kind = "ConnectionDropped")
  /\ [][\A s \in Sessions : pc[s] = "done" => evts'[s] = evts[s]]_vars

\* A session that sent its status and announced a piece has ended.
C18_Witness ==
  \E s \in Sessions :
    /\ pc[s] = "done"
    /\ {"NewConnection", "OurStatus", "NewDownloadedPiece", "ConnectionDropped"}
         \subseteq Kinds(s)

\* --------------------------------------------------------------------- C19
\* C19: every piece in the queue has nothing requested, nothing downloaded
\* and no block, whichever way it came back, and a session that pops a piece
\* holds it so.
C19_QueuedPiecesPristine ==
  /\ [](\A k \in 1..Len(piece_queue) : Pristine(piece_queue[k]))
  /\ [][\A s \in Sessions :
          (pc[s] = "fetch" /\ pc'[s] = "download")
          => /\ held'[s] = <<Head(piece_queue)>>
             /\ Pristine(held'[s][1])]_vars

\* A session was dropped mid-piece, another one popped that piece and has
\* blocks of it, while a piece that failed its hash is back in the queue.
C19_Witness ==
  \E s \in Sessions, t \in Sessions :
    /\ pc[s] = "done"
    /\ DroppedMidPiece(s)
    /\ Holds(t, Last(fetched[s]).idx)
    /\ held[t][1].dl > 0
    /\ \E k \in 1..Len(fetched[t]) :
         /\ fetched[t][k].res = "InvalidPiece"
         /\ InQueue(fetched[t][k].idx) = 1

\* --------------------------------------------------------------------- C20
\* C20: a session that entered request_a_piece comes to read the next
\* frame, whatever becomes of the Request frames it sends.
C20_RequestTerminates ==
  \A s \in Sessions : (pc[s] = "request") ~> (pc[s] = "receive")

====
